---- MODULE Spec2Model ----
(***************************************************************************)
(* Model of exif_watermarker_min.py: the EXIF date normalisation and the   *)
(* date-resolution chain, the layout / font-size / colour helpers, the     *)
(* text-measurement shim, and the per-image render + batch loop.           *)
(*                                                                         *)
(* Python strings are modelled as sequences of one-character strings, so   *)
(* that strip / split / replace / int() / strftime are computed, not       *)
(* assumed.  A Python value is a record [tag, s]: tag "str" or "bytes"     *)
(* with the characters in s, or "None" / "int" with s = << >>.             *)
(***************************************************************************)
EXTENDS Integers, Sequences, FiniteSets, TLC

VARIABLES
    \* ---- format_exif_raw
    gen,        \* how the input under test was put together, with what it denotes
    raw,        \* the argument of format_exif_raw (a Python value)
    padsYear,   \* platform: does strftime("%Y") zero-pad to 4 digits?
    fmt_ret,    \* what format_exif_raw returned
    \* ---- get_date_string and its backends
    file,       \* the image file: metadata seen by each backend, mtime
    HAVE_PIEXIF,\* module flag set at import
    d_pc,       \* position inside get_date_string
    d,          \* the local d of get_date_string
    d_ret,      \* the return value of get_date_string
    probes,     \* metadata fields / tiers consulted so far, in order
    \* ---- calc_pos
    pos_args, pos_ret,
    \* ---- compute_font_px
    font_args, font_ret,
    \* ---- _measure_text
    m_env,      \* what each measurement query does (value or raise)
    m_pc, m_calls, m_ret,
    \* ---- parse_color
    color_arg, color_ret,
    \* ---- main / process_image
    image_list, \* main: the images to process (what each file holds)
    color, pos, \* main: the colour and anchor the operator typed
    i, success, \* main: loop index and success count
    p_pc,       \* position inside process_image ("idle": back in main)
    im, xy,     \* process_image: the opened image, the computed position
    draws,      \* draw.text calls made on im so far
    calls,      \* the images handed to process_image, in order
    rets,       \* what each call returned
    saved       \* the output files written

vDate  == <<gen, raw, padsYear, fmt_ret>>
vChain == <<file, HAVE_PIEXIF, d_pc, d, d_ret, probes>>
vPos   == <<pos_args, pos_ret>>
vFont  == <<font_args, font_ret>>
vMeas  == <<m_env, m_pc, m_calls, m_ret>>
vColor == <<color_arg, color_ret>>
vBatch == <<image_list, color, pos, i, success, p_pc, im, xy, draws, calls, rets, saved>>
vars   == <<vDate, vChain, vPos, vFont, vMeas, vColor, vBatch>>

\* Each specification below drives one component; the others stay idle.
IdleDate  == gen = "idle" /\ raw = "idle" /\ padsYear = TRUE /\ fmt_ret = "idle"
IdleChain == /\ file = "idle" /\ HAVE_PIEXIF = FALSE /\ d_pc = "idle"
             /\ d = "idle" /\ d_ret = "idle" /\ probes = << >>
IdlePos   == pos_args = "idle" /\ pos_ret = "idle"
IdleFont  == font_args = "idle" /\ font_ret = "idle"
IdleMeas  == m_env = "idle" /\ m_pc = "idle" /\ m_calls = << >> /\ m_ret = "idle"
IdleColor == color_arg = "idle" /\ color_ret = "idle"
IdleBatch == /\ image_list = << >> /\ color = "idle" /\ pos = "idle"
             /\ i = 0 /\ success = 0
             /\ p_pc = "idle" /\ im = "idle" /\ draws = << >> /\ xy = "idle"
             /\ calls = << >> /\ rets = << >> /\ saved = << >>

-----------------------------------------------------------------------------
(* Python values and string primitives *)

None     == [tag |-> "None",  s |-> << >>]
Raised   == [tag |-> "raise", s |-> << >>]
Pending  == [tag |-> "pending", s |-> << >>]
Str(cs)  == [tag |-> "str",   s |-> cs]
Bytes(cs) == [tag |-> "bytes", s |-> cs]
IntObj   == [tag |-> "int",   s |-> << >>]
\* a returned value that is not a str (a tuple, a number)
Ret(v)   == [tag |-> "ret",   s |-> v]

\* truthiness of a value: only a non-empty str / bytes or a non-zero int is truthy
Truthy(v) == \/ v.tag \in {"str", "bytes"} /\ v.s # << >>
             \/ v.tag = "int"

WS == {" ", "\t"}
DigitChars == <<"0", "1", "2", "3", "4", "5", "6", "7", "8", "9">>
Digits == {DigitChars[k] : k \in 1..10}
DigitVal(c) == (CHOOSE k \in 1..10 : DigitChars[k] = c) - 1

RECURSIVE LStrip(_)
LStrip(cs) == IF cs # << >> /\ Head(cs) \in WS THEN LStrip(Tail(cs)) ELSE cs

RECURSIVE RStrip(_)
RStrip(cs) == IF cs # << >> /\ cs[Len(cs)] \in WS
              THEN RStrip(SubSeq(cs, 1, Len(cs) - 1)) ELSE cs

\* str.strip()
Strip(cs) == RStrip(LStrip(cs))

\* first index of character c in cs, 0 when absent
IndexOf(cs, c) == IF \E k \in 1..Len(cs) : cs[k] = c
                  THEN CHOOSE k \in 1..Len(cs) :
                         cs[k] = c /\ \A j \in 1..(k - 1) : cs[j] # c
                  ELSE 0

\* str.split(c): always at least one component
RECURSIVE Split(_, _)
Split(cs, c) == LET k == IndexOf(cs, c) IN
                IF k = 0 THEN <<cs>>
                ELSE <<SubSeq(cs, 1, k - 1)>> \o Split(SubSeq(cs, k + 1, Len(cs)), c)

\* str.replace(a, b) for single characters
Replace(cs, a, b) == [k \in 1..Len(cs) |-> IF cs[k] = a THEN b ELSE cs[k]]

RECURSIVE DecVal(_)
DecVal(cs) == IF cs = << >> THEN 0
              ELSE 10 * DecVal(SubSeq(cs, 1, Len(cs) - 1)) + DigitVal(cs[Len(cs)])

RECURSIVE DropChar(_, _)
DropChar(cs, c) == IF cs = << >> THEN << >>
                   ELSE IF Head(cs) = c THEN DropChar(Tail(cs), c)
                   ELSE <<Head(cs)>> \o DropChar(Tail(cs), c)

\* int(str): surrounding whitespace, an optional sign, then decimal digits that
\* may be grouped by single underscores.  [ok, v]; ok = FALSE is ValueError.
PyInt(cs) ==
    LET t    == Strip(cs)
        sgn  == IF t # << >> /\ Head(t) = "-" THEN -1 ELSE 1
        body == IF t # << >> /\ Head(t) \in {"+", "-"} THEN Tail(t) ELSE t
        good == /\ body # << >>
                /\ \A k \in 1..Len(body) : body[k] \in Digits \cup {"_"}
                /\ body[1] # "_" /\ body[Len(body)] # "_"
                /\ \A k \in 1..(Len(body) - 1) : ~(body[k] = "_" /\ body[k + 1] = "_")
    IN  IF good THEN [ok |-> TRUE, v |-> sgn * DecVal(DropChar(body, "_"))]
        ELSE [ok |-> FALSE, v |-> 0]

\* decimal digits of n >= 0, no padding
RECURSIVE ToDec(_)
ToDec(n) == IF n < 10 THEN <<DigitChars[n + 1]>>
            ELSE ToDec(n \div 10) \o <<DigitChars[(n % 10) + 1]>>

RECURSIVE ZeroPad(_, _)
ZeroPad(cs, w) == IF Len(cs) >= w THEN cs ELSE ZeroPad(<<"0">> \o cs, w)

-----------------------------------------------------------------------------
(* datetime(y, m, d) and strftime("%Y-%m-%d") *)

IsLeap(y) == (y % 4 = 0 /\ y % 100 # 0) \/ y % 400 = 0

DaysInMonth(y, m) == IF m = 2 THEN (IF IsLeap(y) THEN 29 ELSE 28)
                     ELSE IF m \in {4, 6, 9, 11} THEN 30 ELSE 31

\* mutant: the day of the month is not validated
DateValid_NoDayCheck(y, m, dd) == y >= 1 /\ y <= 9999 /\ m >= 1 /\ m <= 12

\* datetime(y, m, d) raises ValueError unless this holds
\* (MINYEAR = 1, MAXYEAR = 9999)
DateValid(y, m, dd) == /\ y >= 1 /\ y <= 9999
                       /\ m >= 1 /\ m <= 12
                       /\ dd >= 1 /\ dd <= DaysInMonth(y, m)

\* strftime("%Y-%m-%d").  %m and %d are always two digits; %Y is handed to the
\* C library, which pads years below 1000 on some platforms and not on others
\* (glibc prints 999 as "999").
Strftime(y, m, dd, pad) ==
    (IF pad THEN ZeroPad(ToDec(y), 4) ELSE ToDec(y))
    \o <<"-">> \o ZeroPad(ToDec(m), 2) \o <<"-">> \o ZeroPad(ToDec(dd), 2)

\* the try block of format_exif_raw: any exception becomes None
FormatTriple(parts, pad) ==
    LET y  == PyInt(parts[1])
        m  == PyInt(parts[2])
        dd == PyInt(parts[3])
    IN  IF ~(y.ok /\ m.ok /\ dd.ok) THEN None
        ELSE IF ~DateValid(y.v, m.v, dd.v) THEN None
        ELSE Str(Strftime(y.v, m.v, dd.v, pad))

format_exif_raw(r, pad) ==
    IF ~Truthy(r) \/ r.tag # "str" THEN None
    ELSE LET date_part == Split(Strip(r.s), " ")[1]
             parts     == Split(Replace(date_part, "-", ":"), ":")
         IN  IF Len(parts) >= 3 THEN FormatTriple(parts, pad) ELSE None

-----------------------------------------------------------------------------
(* format_exif_raw under test: the raw values it is applied to *)

\* A date component as written in the raw value: its characters, whether it is
\* a plain decimal numeral ("num"), not a number at all ("bad"), or a spelling
\* that only int() accepts, such as a sign or digit grouping ("lenient"), and
\* the number a "num" / "lenient" component denotes.
Tok(cs, cls, v) == [s |-> cs, cls |-> cls, v |-> v]

YearToks ==
    { Tok(<<"2", "0", "2", "3">>, "num", 2023),
      Tok(<<"2", "0", "2", "4">>, "num", 2024),
      Tok(<<"1", "9", "0", "0">>, "num", 1900),
      Tok(<<"2", "0", "0", "0">>, "num", 2000),
      Tok(<<"0", "9", "9", "9">>, "num", 999),
      Tok(<<"0", "0", "0", "1">>, "num", 1),
      Tok(<<"0", "0", "0", "0">>, "num", 0),
      Tok(<<"1", "0", "0", "0", "0">>, "num", 10000),
      Tok(<<"9", "9", "9">>, "num", 999),
      Tok(<<"2", "0", "x", "3">>, "bad", 0),
      Tok(<<>>, "bad", 0),
      Tok(<<"+", "2", "0", "2", "3">>, "lenient", 2023) }

MonthToks ==
    { Tok(<<"0", "1">>, "num", 1),
      Tok(<<"0", "2">>, "num", 2),
      Tok(<<"0", "4">>, "num", 4),
      Tok(<<"1", "2">>, "num", 12),
      Tok(<<"1", "3">>, "num", 13),
      Tok(<<"0", "0">>, "num", 0),
      Tok(<<"1">>, "num", 1),
      Tok(<<"a", "b">>, "bad", 0),
      Tok(<<>>, "bad", 0),
      Tok(<<"1", "_", "1">>, "lenient", 11) }

DayToks ==
    { Tok(<<"0", "1">>, "num", 1),
      Tok(<<"2", "8">>, "num", 28),
      Tok(<<"2", "9">>, "num", 29),
      Tok(<<"3", "0">>, "num", 30),
      Tok(<<"3", "1">>, "num", 31),
      Tok(<<"3", "2">>, "num", 32),
      Tok(<<"4", "0">>, "num", 40),
      Tok(<<"0", "0">>, "num", 0),
      Tok(<<"5">>, "num", 5),
      Tok(<<"x">>, "bad", 0) }

\* how many ':'-separated components a generated raw value has at most
MaxComps == 4

ExtraComp == <<"0", "7">>
TimeOfDay == <<" ", "1", "0", ":", "3", "0", ":", "0", "0">>

\* raw values assembled from components: "Y:M:D", "Y-M-D", with fewer or more
\* components, with or without a time of day
Templates ==
    [kind : {"template"}, y : YearToks, m : MonthToks, dd : DayToks,
     n : 1..MaxComps, sep : {":", "-"}, time : BOOLEAN]

\* raw values that are not assembled from components
Samples ==
    { [kind |-> "sample", why |-> "none",   v |-> None],
      [kind |-> "sample", why |-> "empty",  v |-> Str(<< >>)],
      [kind |-> "sample", why |-> "notstr", v |-> IntObj],
      [kind |-> "sample", why |-> "notstr",
       v |-> Bytes(<<"2", "0", "2", "3", ":", "0", "1", ":", "0", "1">>)],
      [kind |-> "sample", why |-> "text",
       v |-> Str(<<"n", "o", "t", "-", "a", "-", "d", "a", "t", "e">>)],
      [kind |-> "sample", why |-> "text", v |-> Str(<<" ", "\t", " ">>)],
      [kind |-> "sample", why |-> "text", v |-> Str(<<":", ":">>)],
      [kind |-> "sample", why |-> "text",
       v |-> Str(<<"2", "0", "2", "3", "0", "1", "0", "1">>)] }

RECURSIVE Join(_, _)
Join(comps, sep) == IF Len(comps) = 0 THEN << >>
                    ELSE IF Len(comps) = 1 THEN comps[1]
                    ELSE comps[1] \o <<sep>> \o Join(Tail(comps), sep)

RawOf(g) ==
    IF g.kind = "sample" THEN g.v
    ELSE LET all == [k \in 1..g.n |-> IF k = 1 THEN g.y.s
                                      ELSE IF k = 2 THEN g.m.s
                                      ELSE IF k = 3 THEN g.dd.s ELSE ExtraComp]
         IN  Str(Join(all, g.sep) \o (IF g.time THEN TimeOfDay ELSE << >>))

InitDate ==
    /\ gen \in Templates \cup Samples
    /\ raw = RawOf(gen)
    /\ padsYear \in BOOLEAN
    /\ fmt_ret = Pending
    /\ IdleChain /\ IdlePos /\ IdleFont /\ IdleMeas /\ IdleColor /\ IdleBatch

\* the call format_exif_raw(raw)
Normalize ==
    /\ fmt_ret.tag = "pending"
    /\ fmt_ret' = format_exif_raw(raw, padsYear)
    /\ UNCHANGED <<gen, raw, padsYear, vChain, vPos, vFont, vMeas, vColor, vBatch>>

NextDate == Normalize
SpecDate == InitDate /\ [][NextDate]_vars

\* a real calendar date, written without reference to DaysInMonth
RealDate(y, m, dd) ==
    /\ y \in 1..9999 /\ m \in 1..12 /\ dd \in 1..31
    /\ (m \in {4, 6, 9, 11} => dd <= 30)
    /\ (m = 2 => dd <= 29)
    /\ (m = 2 /\ dd = 29 => (y % 400 = 0 \/ (y % 4 = 0 /\ y % 100 # 0)))

\* the raw value has one of the two forms "YYYY:MM:DD HH:MM:SS", "YYYY-MM-DD"
\* and names a real calendar date
CanonicalForm(g) ==
    /\ g.kind = "template" /\ g.n = 3
    /\ (g.sep = ":" /\ g.time) \/ (g.sep = "-" /\ ~g.time)
    /\ g.y.cls = "num" /\ g.m.cls = "num" /\ g.dd.cls = "num"
    /\ Len(g.y.s) = 4 /\ Len(g.m.s) = 2 /\ Len(g.dd.s) = 2
    /\ RealDate(g.y.v, g.m.v, g.dd.v)

\* C2: every "YYYY:MM:DD HH:MM:SS" or "YYYY-MM-DD" raw value with a real
\* calendar date normalises to exactly "YYYY-MM-DD", the same four year digits,
\* two month digits and two day digits.
C2_CanonicalExact ==
    (fmt_ret.tag # "pending" /\ CanonicalForm(gen))
        => fmt_ret = Str(gen.y.s \o <<"-">> \o gen.m.s \o <<"-">> \o gen.dd.s)

\* the raw value is malformed or out of range: empty, not a string, text, too
\* few components, a component among the first three that is not a number,
\* or a numeric triple that is no real calendar date
Malformed(g) ==
    \/ g.kind = "sample"
    \/ /\ g.kind = "template"
       /\ \/ g.n < 3
          \/ "bad" \in {g.y.cls, g.m.cls, g.dd.cls}
          \/ /\ g.y.cls = "num" /\ g.m.cls = "num" /\ g.dd.cls = "num"
             /\ ~RealDate(g.y.v, g.m.v, g.dd.v)

\* C3: a malformed or out-of-range raw value normalises to None: it neither
\* raises nor is coerced into some other date.
C3_MalformedIsNone ==
    (fmt_ret.tag # "pending" /\ Malformed(gen)) => fmt_ret = None

\* "2023:13:40" (with or without a time of day) has been normalised
C3_Witness ==
    /\ fmt_ret = None
    /\ gen.kind = "template" /\ gen.n = 3 /\ gen.sep = ":"
    /\ gen.y.v = 2023 /\ gen.m.v = 13 /\ gen.dd.v = 40
    /\ gen.y.cls = "num"

-----------------------------------------------------------------------------
(* calc_pos *)

\* the default of calc_pos's margin parameter
margin == 10

\* mutant: the centre is computed with division truncating toward zero
FloorDiv2_Trunc(a) == IF a >= 0 THEN a \div 2 ELSE -((-a) \div 2)

\* Python's a // 2: the quotient rounded toward minus infinity
FloorDiv2(a) == a \div 2

calc_pos(pos_name, img_size, text_size) ==
    LET iw == img_size[1]
        ih == img_size[2]
        tw == text_size[1]
        th == text_size[2]
    IN  IF pos_name = "top-left" THEN <<margin, margin>>
        ELSE IF pos_name = "top-right" THEN <<iw - tw - margin, margin>>
        ELSE IF pos_name = "bottom-left" THEN <<margin, ih - th - margin>>
        ELSE IF pos_name = "center" THEN <<FloorDiv2(iw - tw), FloorDiv2(ih - th)>>
        ELSE <<iw - tw - margin, ih - th - margin>>

\* image and text sizes run over 0..MaxDim, plus the sizes of the examples
MaxDim == 4

AnchorNames == {"top-left", "top-right", "bottom-left", "bottom-right", "center",
                "unknown-anchor", "", "Center"}

InitPos ==
    /\ pos_args \in [pos_name : AnchorNames,
                     iw : (0..MaxDim) \cup {100}, ih : (0..MaxDim) \cup {50},
                     tw : (0..MaxDim) \cup {20},  th : (0..MaxDim) \cup {10}]
    /\ pos_ret = Pending
    /\ IdleDate /\ IdleChain /\ IdleFont /\ IdleMeas /\ IdleColor /\ IdleBatch

\* the call calc_pos(pos_name, (iw, ih), (tw, th))
Place ==
    /\ pos_ret.tag = "pending"
    /\ pos_ret' = Ret(calc_pos(pos_args.pos_name, <<pos_args.iw, pos_args.ih>>,
                               <<pos_args.tw, pos_args.th>>))
    /\ UNCHANGED <<pos_args, vDate, vChain, vFont, vMeas, vColor, vBatch>>

NextPos == Place
SpecPos == InitPos /\ [][NextPos]_vars

\* q is a / 2 truncated toward zero
IsTruncHalf(q, a) == IF a >= 0 THEN 2 * q <= a /\ a <= 2 * q + 1
                     ELSE 2 * q >= a /\ a >= 2 * q - 1

\* q is a / 2 rounded toward minus infinity
IsFloorHalf(q, a) == 2 * q <= a /\ a <= 2 * q + 1

\* the placements every anchor but "center" has in the Layout table
EdgePlacement(a, r) ==
    LET m == 10 IN
    /\ (a.pos_name = "top-left"    => r = <<m, m>>)
    /\ (a.pos_name = "top-right"   => r = <<a.iw - a.tw - m, m>>)
    /\ (a.pos_name = "bottom-left" => r = <<m, a.ih - a.th - m>>)
    /\ (a.pos_name \notin {"top-left", "top-right", "bottom-left", "center"}
            => r = <<a.iw - a.tw - m, a.ih - a.th - m>>)

ExamplesPlacement(a, r) ==
    /\ a.iw = 100 /\ a.ih = 50 /\ a.tw = 20 /\ a.th = 10
        => /\ (a.pos_name = "center" => r = <<40, 20>>)
           /\ (a.pos_name = "top-right" => r = <<70, 10>>)
           /\ (a.pos_name = "unknown-anchor" => r = <<70, 30>>)

\* C4 as stated: the Layout table without clamping, the centre being
\* ((iw-tw)/2, (ih-th)/2) with the division truncating toward zero.
C4_TruncatingCenter ==
    pos_ret.tag = "ret" =>
        /\ EdgePlacement(pos_args, pos_ret.s)
        /\ ExamplesPlacement(pos_args, pos_ret.s)
        /\ (pos_args.pos_name = "center" =>
               /\ IsTruncHalf(pos_ret.s[1], pos_args.iw - pos_args.tw)
               /\ IsTruncHalf(pos_ret.s[2], pos_args.ih - pos_args.th))

\* C4 amended: the Layout table without clamping, the centre being
\* ((iw-tw)/2, (ih-th)/2) with the division rounding toward minus infinity
\* (the two agree unless the text is larger than the image by an odd amount).
C4_FlooringCenter ==
    pos_ret.tag = "ret" =>
        /\ EdgePlacement(pos_args, pos_ret.s)
        /\ ExamplesPlacement(pos_args, pos_ret.s)
        /\ (pos_args.pos_name = "center" =>
               /\ IsFloorHalf(pos_ret.s[1], pos_args.iw - pos_args.tw)
               /\ IsFloorHalf(pos_ret.s[2], pos_args.ih - pos_args.th))

\* a centred text wider than the image by an odd number of pixels was placed
C4_Witness ==
    /\ pos_ret.tag = "ret"
    /\ pos_args.pos_name = "center"
    /\ pos_args.tw > pos_args.iw /\ (pos_args.tw - pos_args.iw) % 2 = 1
    /\ pos_ret.s[1] < 0

-----------------------------------------------------------------------------
(* compute_font_px *)

default_px == 36
floor_px == 12

\* float(str) for the spellings used here: surrounding whitespace, an optional
\* sign, then "inf" / "infinity" / "nan", or decimal digits with an optional
\* fraction.  The value is num / den with den a power of ten.
\* [kind |-> "err"] is ValueError.
PyFloat(cs) ==
    LET t    == Strip(cs)
        neg  == t # << >> /\ Head(t) = "-"
        body == IF t # << >> /\ Head(t) \in {"+", "-"} THEN Tail(t) ELSE t
        dot  == IndexOf(body, ".")
        ip   == IF dot = 0 THEN body ELSE SubSeq(body, 1, dot - 1)
        fp   == IF dot = 0 THEN << >> ELSE SubSeq(body, dot + 1, Len(body))
        allDigits(x) == \A k \in 1..Len(x) : x[k] \in Digits
        pow10[k \in 0..Len(fp)] == IF k = 0 THEN 1 ELSE 10 * pow10[k - 1]
    IN  IF body \in {<<"i", "n", "f">>, <<"i", "n", "f", "i", "n", "i", "t", "y">>}
        THEN [kind |-> IF neg THEN "-inf" ELSE "inf", num |-> 0, den |-> 1]
        ELSE IF body = <<"n", "a", "n">> THEN [kind |-> "nan", num |-> 0, den |-> 1]
        ELSE IF allDigits(ip) /\ allDigits(fp) /\ Len(ip) + Len(fp) > 0
        THEN [kind |-> "num",
              num  |-> (IF neg THEN -1 ELSE 1) * DecVal(ip \o fp),
              den  |-> pow10[Len(fp)]]
        ELSE [kind |-> "err", num |-> 0, den |-> 1]

\* max(12, px)
WithFloor(px) == IF px > floor_px THEN px ELSE floor_px

\* mutant: no try/except, a failed float() or int() propagates
compute_font_px_NoExcept(spec, img_w) ==
    LET val == PyFloat(spec) IN
    IF val.kind \in {"err", "inf"} THEN Raised
    ELSE IF val.kind = "num" /\ val.num >= val.den THEN Ret(val.num \div val.den)
    ELSE IF val.kind = "num" /\ val.num > 0
    THEN Ret(WithFloor((img_w * val.num) \div val.den))
    ELSE Ret(default_px)

\* float(spec) raising ValueError and int(inf) raising OverflowError are both
\* caught, and fall through to the default like nan, zero and negative values
compute_font_px(spec, img_w) ==
    LET val == PyFloat(spec) IN
    IF val.kind = "err" THEN Ret(default_px)
    ELSE IF val.kind = "inf" THEN Ret(default_px)
    ELSE IF val.kind = "num" /\ val.num >= val.den THEN Ret(val.num \div val.den)
    ELSE IF val.kind = "num" /\ val.num > 0
    THEN Ret(WithFloor((img_w * val.num) \div val.den))
    ELSE Ret(default_px)


\* A font-size spec as typed, with what it denotes: a number p / q ("num"), a
\* non-finite float ("nonfinite") or nothing float() accepts ("unparseable").
FontSample(cs, cls, p, q) == [spec |-> cs, cls |-> cls, p |-> p, q |-> q]

FontSamples ==
    { FontSample(<<"0", ".", "5">>, "num", 1, 2),
      FontSample(<<"0", ".", "2", "5">>, "num", 1, 4),
      FontSample(<<"0", ".", "1", "2", "5">>, "num", 1, 8),
      FontSample(<<"0", ".", "7", "5">>, "num", 3, 4),
      FontSample(<<"0", ".", "0", "4">>, "num", 1, 25),
      FontSample(<<"0", ".", "9", "9", "9">>, "num", 999, 1000),
      FontSample(<<"1", ".", "5">>, "num", 3, 2),
      FontSample(<<"2", ".", "7", "5">>, "num", 11, 4),
      FontSample(<<"2", "0">>, "num", 20, 1),
      FontSample(<<"1">>, "num", 1, 1),
      FontSample(<<"1", "2", ".", "0">>, "num", 12, 1),
      FontSample(<<"1", "0", "0", "0">>, "num", 1000, 1),
      FontSample(<<"0">>, "num", 0, 1),
      FontSample(<<"0", ".", "0">>, "num", 0, 1),
      FontSample(<<"-", "3">>, "num", -3, 1),
      FontSample(<<"-", "0", ".", "5">>, "num", -1, 2),
      FontSample(<<" ", "2", "0", " ">>, "num", 20, 1),
      FontSample(<<"+", "0", ".", "5">>, "num", 1, 2),
      FontSample(<<".", "5">>, "num", 1, 2),
      FontSample(<<"1", ".">>, "num", 1, 1),
      FontSample(<<"n", "a", "n">>, "nonfinite", 0, 1),
      FontSample(<<"i", "n", "f">>, "nonfinite", 0, 1),
      FontSample(<<"-", "i", "n", "f">>, "nonfinite", 0, 1),
      FontSample(<<"i", "n", "f", "i", "n", "i", "t", "y">>, "nonfinite", 0, 1),
      FontSample(<< >>, "unparseable", 0, 1),
      FontSample(<<"a", "b", "c">>, "unparseable", 0, 1),
      FontSample(<<"1", "2", "p", "x">>, "unparseable", 0, 1),
      FontSample(<<"1", ",", "5">>, "unparseable", 0, 1),
      FontSample(<<".">>, "unparseable", 0, 1) }

\* image widths run over 1..MaxWidth, plus a few larger ones
MaxWidth == 7

Widths == (1..MaxWidth) \cup {23, 24, 25, 47, 48, 49, 100, 101, 300, 1000, 4000}

InitFont ==
    /\ font_args \in [sample : FontSamples, img_w : Widths]
    /\ font_ret = Pending
    /\ IdleDate /\ IdleChain /\ IdlePos /\ IdleMeas /\ IdleColor /\ IdleBatch

\* the call compute_font_px(spec, img_w)
Resolve ==
    /\ font_ret.tag = "pending"
    /\ font_ret' = compute_font_px(font_args.sample.spec, font_args.img_w)
    /\ UNCHANGED <<font_args, vDate, vChain, vPos, vMeas, vColor, vBatch>>

NextFont == Resolve
SpecFont == InitFont /\ [][NextFont]_vars

\* n is p / q (q > 0) truncated to an integer, for p >= 0
IsTrunc(n, p, q) == q * n <= p /\ p < q * (n + 1)

\* what every spec that denotes no number in (0, 1) or [1, oo) resolves to, and
\* the three examples
FontDefaultsAndExamples(a, r) ==
    LET v == a.sample IN
    /\ (v.cls # "num" \/ v.p <= 0) => r = 36
    /\ (v.spec = <<"0", ".", "5">> /\ a.img_w = 100) => r = 50
    /\ v.spec = <<"a", "b", "c">> => r = 36
    /\ v.spec = <<"2", "0">> => r = 20

\* C5 as stated: never raises; a number >= 1 is itself the pixel size, a number
\* in (0, 1) gives that proportion of the width, at least 12; all else gives 36.
C5_LiteralValue ==
    font_ret.tag # "pending" =>
        /\ font_ret.tag = "ret"
        /\ FontDefaultsAndExamples(font_args, font_ret.s)
        /\ LET v == font_args.sample
               w == font_args.img_w
               r == font_ret.s
           IN  /\ (v.cls = "num" /\ v.p >= v.q) => r * v.q = v.p
               /\ (v.cls = "num" /\ v.p > 0 /\ v.p < v.q) =>
                      IF w * v.p < 12 * v.q THEN r = 12 ELSE r * v.q = w * v.p

\* C5 amended: never raises; a number >= 1 gives that number truncated to an
\* integer, a number in (0, 1) gives that proportion of the width truncated to
\* an integer, at least 12; all else gives 36.
C5_TruncatedValue ==
    font_ret.tag # "pending" =>
        /\ font_ret.tag = "ret"
        /\ FontDefaultsAndExamples(font_args, font_ret.s)
        /\ LET v == font_args.sample
               w == font_args.img_w
               r == font_ret.s
           IN  /\ (v.cls = "num" /\ v.p >= v.q) => IsTrunc(r, v.p, v.q)
               /\ (v.cls = "num" /\ v.p > 0 /\ v.p < v.q) =>
                      IF w * v.p < 12 * v.q THEN r = 12
                      ELSE IsTrunc(r, w * v.p, v.q)

\* "0.5" has been resolved against the odd width 101
C5_Witness ==
    /\ font_ret.tag = "ret"
    /\ font_args.sample.spec = <<"0", ".", "5">> /\ font_args.img_w = 101
    /\ font_ret.s = 50

-----------------------------------------------------------------------------
(* parse_color *)

UpperChars == <<"A", "B", "C", "D", "E", "F", "G", "H", "I", "J", "K", "L", "M",
                "N", "O", "P", "Q", "R", "S", "T", "U", "V", "W", "X", "Y", "Z">>
LowerChars == <<"a", "b", "c", "d", "e", "f", "g", "h", "i", "j", "k", "l", "m",
                "n", "o", "p", "q", "r", "s", "t", "u", "v", "w", "x", "y", "z">>

\* str.lower()
Lower(cs) == [k \in 1..Len(cs) |->
                 IF \E j \in 1..26 : UpperChars[j] = cs[k]
                 THEN LowerChars[CHOOSE j \in 1..26 : UpperChars[j] = cs[k]]
                 ELSE cs[k]]

HexChars == <<"0", "1", "2", "3", "4", "5", "6", "7", "8", "9",
              "a", "b", "c", "d", "e", "f">>
IsHexChar(c) == \E j \in 1..16 : HexChars[j] = Lower(<<c>>)[1]
HexDigitVal(c) == (CHOOSE j \in 1..16 : HexChars[j] = Lower(<<c>>)[1]) - 1

RECURSIVE HexVal(_)
HexVal(cs) == IF cs = << >> THEN 0
              ELSE 16 * HexVal(SubSeq(cs, 1, Len(cs) - 1)) + HexDigitVal(cs[Len(cs)])

\* int(str, 16): surrounding whitespace, an optional sign, an optional 0x, then
\* hex digits that may be grouped by single underscores.  ok = FALSE is ValueError.
PyIntHex(cs) ==
    LET t    == Strip(cs)
        sgn  == IF t # << >> /\ Head(t) = "-" THEN -1 ELSE 1
        u    == IF t # << >> /\ Head(t) \in {"+", "-"} THEN Tail(t) ELSE t
        body == IF Len(u) >= 2 /\ u[1] = "0" /\ u[2] \in {"x", "X"}
                THEN SubSeq(u, 3, Len(u)) ELSE u
        good == /\ body # << >>
                /\ \A k \in 1..Len(body) : IsHexChar(body[k]) \/ body[k] = "_"
                /\ body[Len(body)] # "_"
                /\ (body[1] = "_" => body # u)
                /\ \A k \in 1..(Len(body) - 1) : ~(body[k] = "_" /\ body[k + 1] = "_")
    IN  IF good THEN [ok |-> TRUE, v |-> sgn * HexVal(DropChar(body, "_"))]
        ELSE [ok |-> FALSE, v |-> 0]

names ==
    { [name |-> <<"w", "h", "i", "t", "e">>, rgb |-> <<255, 255, 255>>],
      [name |-> <<"b", "l", "a", "c", "k">>, rgb |-> <<0, 0, 0>>],
      [name |-> <<"r", "e", "d">>, rgb |-> <<255, 0, 0>>],
      [name |-> <<"y", "e", "l", "l", "o", "w">>, rgb |-> <<255, 255, 0>>],
      [name |-> <<"b", "l", "u", "e">>, rgb |-> <<0, 0, 255>>],
      [name |-> <<"g", "r", "e", "e", "n">>, rgb |-> <<0, 128, 0>>] }

white == <<255, 255, 255>>

\* names.get(key, (255,255,255))
NamesGet(key) == IF \E e \in names : e.name = key
                 THEN (CHOOSE e \in names : e.name = key).rgb
                 ELSE white

\* the hex branch has no try/except: a ValueError of int(.., 16) leaves
\* parse_color as an exception
parse_color(v) ==
    LET s == Strip(IF Truthy(v) THEN v.s ELSE << >>) IN
    IF s # << >> /\ Head(s) = "#" /\ Len(s) = 7
    THEN LET r == PyIntHex(SubSeq(s, 2, 3))
             g == PyIntHex(SubSeq(s, 4, 5))
             b == PyIntHex(SubSeq(s, 6, 7))
         IN  IF r.ok /\ g.ok /\ b.ok THEN Ret(<<r.v, g.v, b.v>>) ELSE Raised
    ELSE Ret(NamesGet(Lower(s)))

\* Two characters of a "#RRGGBB" string: two hex digits ("hex"), not a hex
\* number ("nothex"), or a spelling only int(.., 16) accepts ("lenient").
HexPair(cs, cls, v) == [s |-> cs, cls |-> cls, v |-> v]

HexPairs ==
    { HexPair(<<"F", "F">>, "hex", 255),
      HexPair(<<"0", "0">>, "hex", 0),
      HexPair(<<"8", "0">>, "hex", 128),
      HexPair(<<"f", "f">>, "hex", 255),
      HexPair(<<"0", "a">>, "hex", 10),
      HexPair(<<"G", "G">>, "nothex", 0),
      HexPair(<<"z", "z">>, "nothex", 0),
      HexPair(<<"1", "_">>, "nothex", 0),
      HexPair(<<"+", "F">>, "lenient", 15),
      HexPair(<<" ", "1">>, "lenient", 1),
      HexPair(<<"-", "1">>, "lenient", -1) }

\* A colour string that is not "#" and three pairs, with the colour the name
\* table gives it ("name") or white ("unknown").
NamedSample(v, cls, rgb) == [kind |-> "named", v |-> v, cls |-> cls, rgb |-> rgb]

NamedSamples ==
    { NamedSample(Str(<<"w", "h", "i", "t", "e">>), "name", <<255, 255, 255>>),
      NamedSample(Str(<<"W", "h", "i", "t", "e">>), "name", <<255, 255, 255>>),
      NamedSample(Str(<<"W", "H", "I", "T", "E">>), "name", <<255, 255, 255>>),
      NamedSample(Str(<<" ", " ", "w", "h", "i", "t", "e", " ">>), "name", <<255, 255, 255>>),
      NamedSample(Str(<<"b", "l", "a", "c", "k">>), "name", <<0, 0, 0>>),
      NamedSample(Str(<<"B", "l", "a", "c", "k">>), "name", <<0, 0, 0>>),
      NamedSample(Str(<<"B", "L", "A", "C", "K">>), "name", <<0, 0, 0>>),
      NamedSample(Str(<<" ", " ", "b", "l", "a", "c", "k", " ">>), "name", <<0, 0, 0>>),
      NamedSample(Str(<<"r", "e", "d">>), "name", <<255, 0, 0>>),
      NamedSample(Str(<<"R", "e", "d">>), "name", <<255, 0, 0>>),
      NamedSample(Str(<<"R", "E", "D">>), "name", <<255, 0, 0>>),
      NamedSample(Str(<<" ", " ", "r", "e", "d", " ">>), "name", <<255, 0, 0>>),
      NamedSample(Str(<<"y", "e", "l", "l", "o", "w">>), "name", <<255, 255, 0>>),
      NamedSample(Str(<<"Y", "e", "l", "l", "o", "w">>), "name", <<255, 255, 0>>),
      NamedSample(Str(<<"Y", "E", "L", "L", "O", "W">>), "name", <<255, 255, 0>>),
      NamedSample(Str(<<" ", " ", "y", "e", "l", "l", "o", "w", " ">>), "name", <<255, 255, 0>>),
      NamedSample(Str(<<"b", "l", "u", "e">>), "name", <<0, 0, 255>>),
      NamedSample(Str(<<"B", "l", "u", "e">>), "name", <<0, 0, 255>>),
      NamedSample(Str(<<"B", "L", "U", "E">>), "name", <<0, 0, 255>>),
      NamedSample(Str(<<" ", " ", "b", "l", "u", "e", " ">>), "name", <<0, 0, 255>>),
      NamedSample(Str(<<"g", "r", "e", "e", "n">>), "name", <<0, 128, 0>>),
      NamedSample(Str(<<"G", "r", "e", "e", "n">>), "name", <<0, 128, 0>>),
      NamedSample(Str(<<"G", "R", "E", "E", "N">>), "name", <<0, 128, 0>>),
      NamedSample(Str(<<" ", " ", "g", "r", "e", "e", "n", " ">>), "name", <<0, 128, 0>>),
      NamedSample(Str(<<"m", "a", "u", "v", "e">>), "unknown", <<255, 255, 255>>),
      NamedSample(Str(<< >>), "unknown", <<255, 255, 255>>),
      NamedSample(Str(<<"#", "F", "F", "F">>), "unknown", <<255, 255, 255>>),
      NamedSample(Str(<<"#", "F", "F", "0", "0", "0", "0", "0">>), "unknown", <<255, 255, 255>>),
      NamedSample(Str(<<"F", "F", "0", "0", "0", "0">>), "unknown", <<255, 255, 255>>),
      NamedSample(Str(<<"#", "w", "h", "i", "t", "e">>), "unknown", <<255, 255, 255>>),
      NamedSample(Str(<<"o", "r", "a", "n", "g", "e">>), "unknown", <<255, 255, 255>>),
      NamedSample(Str(<<"#">>), "unknown", <<255, 255, 255>>),
      NamedSample(None, "unknown", <<255, 255, 255>>) }

HexSamples == [kind : {"hex"}, rr : HexPairs, gg : HexPairs, bb : HexPairs]

ColorOf(a) == IF a.kind = "named" THEN a.v
              ELSE Str(<<"#">> \o a.rr.s \o a.gg.s \o a.bb.s)

InitColor ==
    /\ color_arg \in NamedSamples \cup HexSamples
    /\ color_ret = Pending
    /\ IdleDate /\ IdleChain /\ IdlePos /\ IdleFont /\ IdleMeas /\ IdleBatch

\* the call parse_color(s)
ParseColor ==
    /\ color_ret.tag = "pending"
    /\ color_ret' = parse_color(ColorOf(color_arg))
    /\ UNCHANGED <<color_arg, vDate, vChain, vPos, vFont, vMeas, vBatch>>

NextColor == ParseColor
SpecColor == InitColor /\ [][NextColor]_vars

\* C7: parse_color returns an RGB triple for every string: (RR, GG, BB) for a
\* "#RRGGBB" hex string, the table's colour for a name in any letter case, and
\* white for anything unrecognised, a "#" string that is no hex number included.
C7_AlwaysATriple ==
    color_ret.tag # "pending" =>
        /\ color_ret.tag = "ret"
        /\ color_arg.kind = "named" => color_ret.s = color_arg.rgb
        /\ (/\ color_arg.kind = "hex"
            /\ {color_arg.rr.cls, color_arg.gg.cls, color_arg.bb.cls} = {"hex"})
               => color_ret.s = <<color_arg.rr.v, color_arg.gg.v, color_arg.bb.v>>
        /\ (/\ color_arg.kind = "hex"
            /\ "nothex" \in {color_arg.rr.cls, color_arg.gg.cls, color_arg.bb.cls})
               => color_ret.s = <<255, 255, 255>>

\* what does hold of parse_color: the same, except that a 7-character "#"
\* string with a pair that is no hex number raises instead of giving white
ParseColorActual ==
    color_ret.tag # "pending" =>
        /\ color_arg.kind = "named" => color_ret = Ret(color_arg.rgb)
        /\ (/\ color_arg.kind = "hex"
            /\ {color_arg.rr.cls, color_arg.gg.cls, color_arg.bb.cls} = {"hex"})
               => color_ret = Ret(<<color_arg.rr.v, color_arg.gg.v, color_arg.bb.v>>)
        /\ (/\ color_arg.kind = "hex"
            /\ "nothex" \in {color_arg.rr.cls, color_arg.gg.cls, color_arg.bb.cls})
               => color_ret = Raised

-----------------------------------------------------------------------------
(* _measure_text *)

\* the last-resort estimate: 8 px per character, 16 px high
char_w == 8
line_h == 16

\* a measurement query either raises or returns a value
Fails      == [ok |-> FALSE, v |-> << >>]
Gives(v)   == [ok |-> TRUE,  v |-> v]

\* mutant: the box's right and bottom are taken as the extent
BBoxExtent_NoOrigin(bbox) == <<bbox[3], bbox[4]>>

\* (bbox[2] - bbox[0], bbox[3] - bbox[1])
BBoxExtent(bbox) == <<bbox[3] - bbox[1], bbox[4] - bbox[2]>>

\* texts of 0..MaxTextLen characters, plus the 10 of a date
MaxTextLen == 3

\* draw.textbbox may raise (old Pillow), return a (left, top, right, bottom)
\* box, or return something that cannot be indexed (the subtraction raises)
BBoxOutcomes == { Fails, Gives(<<0, 0, 20, 10>>), Gives(<<1, 3, 21, 14>>),
                  Gives(<<0, 0, 0, 0>>), Gives(<< >>) }
SizeOutcomes == { Fails, Gives(<<30, 12>>), Gives(<<0, 0>>) }

InitMeas ==
    /\ m_env \in [textbbox : BBoxOutcomes, getsize : SizeOutcomes,
                  textsize : SizeOutcomes, len_text : (0..MaxTextLen) \cup {10}]
    /\ m_pc = "textbbox"
    /\ m_calls = << >>
    /\ m_ret = Pending
    /\ IdleDate /\ IdleChain /\ IdlePos /\ IdleFont /\ IdleColor /\ IdleBatch

\* first try block: draw.textbbox and the two subtractions
TryTextbbox ==
    /\ m_pc = "textbbox"
    /\ m_calls' = Append(m_calls, "textbbox")
    /\ IF m_env.textbbox.ok /\ Len(m_env.textbbox.v) = 4
       THEN m_ret' = Ret(BBoxExtent(m_env.textbbox.v)) /\ m_pc' = "done"
       ELSE m_ret' = m_ret /\ m_pc' = "getsize"
    /\ UNCHANGED <<m_env, vDate, vChain, vPos, vFont, vColor, vBatch>>

\* second try block: font.getsize
TryGetsize ==
    /\ m_pc = "getsize"
    /\ m_calls' = Append(m_calls, "getsize")
    /\ IF m_env.getsize.ok
       THEN m_ret' = Ret(m_env.getsize.v) /\ m_pc' = "done"
       ELSE m_ret' = m_ret /\ m_pc' = "textsize"
    /\ UNCHANGED <<m_env, vDate, vChain, vPos, vFont, vColor, vBatch>>

\* third try block: draw.textsize, whose except clause returns the estimate
TryTextsize ==
    /\ m_pc = "textsize"
    /\ m_calls' = Append(m_calls, "textsize")
    /\ m_ret' = IF m_env.textsize.ok THEN Ret(m_env.textsize.v)
                ELSE Ret(<<m_env.len_text * char_w, line_h>>)
    /\ m_pc' = "done"
    /\ UNCHANGED <<m_env, vDate, vChain, vPos, vFont, vColor, vBatch>>

NextMeas == TryTextbbox \/ TryGetsize \/ TryTextsize
SpecMeas == InitMeas /\ [][NextMeas]_vars

QueryOrder == <<"textbbox", "getsize", "textsize">>

\* did the k-th query deliver an extent
Delivered(k) ==
    IF k = 1 THEN m_env.textbbox.ok /\ m_env.textbbox.v # << >>
    ELSE IF k = 2 THEN m_env.getsize.ok ELSE m_env.textsize.ok

\* C6: _measure_text never raises; the queries are made in the order textbbox,
\* getsize, textsize, each only after all before it failed; the result is that
\* of the first that succeeds (right-left, bottom-top for the box), and
\* (8 * len(text), 16) when all three fail.
C6_FirstWorkingQuery ==
    /\ m_ret.tag \in {"pending", "ret"}
    /\ Len(m_calls) <= 3
    /\ \A k \in 1..Len(m_calls) :
          /\ m_calls[k] = QueryOrder[k]
          /\ \A j \in 1..(k - 1) : ~Delivered(j)
    /\ m_pc = "done" =>
          /\ m_ret.tag = "ret"
          /\ LET n == Len(m_calls) IN
             IF Delivered(n)
             THEN m_ret.s = IF n = 1
                            THEN <<m_env.textbbox.v[3] - m_env.textbbox.v[1],
                                   m_env.textbbox.v[4] - m_env.textbbox.v[2]>>
                            ELSE IF n = 2 THEN m_env.getsize.v ELSE m_env.textsize.v
             ELSE n = 3 /\ m_ret.s = <<8 * m_env.len_text, 16>>

\* all three queries failed on a 10-character text and (80, 16) was returned
C6_Witness ==
    /\ m_pc = "done"
    /\ m_calls = QueryOrder
    /\ ~m_env.textbbox.ok /\ ~m_env.getsize.ok /\ ~m_env.textsize.ok
    /\ m_env.len_text = 10
    /\ m_ret = Ret(<<80, 16>>)

-----------------------------------------------------------------------------
(* get_date_from_piexif, get_date_from_pillow, get_date_string *)

\* dict.get / "tag in exif" finding nothing
Missing == [tag |-> "missing", s |-> << >>]
\* bytes that bytes.decode() rejects (UnicodeDecodeError)
BadBytes == [tag |-> "badbytes", s |-> <<"?">>]

\* truthiness of a metadata value (any non-empty bytes object is truthy)
FieldTruthy(v) == Truthy(v) \/ v.tag = "badbytes"

\* date_bytes.decode() if bytes else str(date_bytes); Raised on a decode error
Decode(v) == IF v.tag = "bytes" THEN Str(v.s)
             ELSE IF v.tag = "badbytes" THEN Raised
             ELSE v

\* Exif.DateTimeOriginal, then 0th.DateTime
PiexifOrder == <<"DateTimeOriginal", "DateTime">>

RECURSIVE PiexifScan(_, _, _, _)
PiexifScan(exif, k, seen, pad) ==
    IF k > Len(PiexifOrder) THEN [ret |-> None, probes |-> seen]
    ELSE LET v == exif[PiexifOrder[k]] IN
         IF FieldTruthy(v)
         THEN LET r == Decode(v) IN
              [ret    |-> IF r = Raised THEN None ELSE format_exif_raw(r, pad),
               probes |-> Append(seen, PiexifOrder[k])]
         ELSE PiexifScan(exif, k + 1, Append(seen, PiexifOrder[k]), pad)

\* [ret, probes]: the value returned and the fields looked up, in order
get_date_from_piexif(f, have, pad) ==
    IF ~have THEN [ret |-> None, probes |-> << >>]
    ELSE IF f.piexif.load = "raise" THEN [ret |-> None, probes |-> << >>]
    ELSE PiexifScan(f.piexif.exif, 1, << >>, pad)

\* mutant: DateTime is probed before DateTimeOriginal
PillowOrder_Swapped == <<"DateTime", "DateTimeOriginal", "DateTimeDigitized">>

PillowOrder == <<"DateTimeOriginal", "DateTime", "DateTimeDigitized">>

RECURSIVE PillowScan(_, _, _, _)
PillowScan(exif, k, seen, pad) ==
    IF k > Len(PillowOrder) THEN [ret |-> None, probes |-> seen]
    ELSE LET v == exif[PillowOrder[k]] IN
         IF v # Missing /\ FieldTruthy(v)
         THEN [ret    |-> format_exif_raw(v, pad),
               probes |-> Append(seen, PillowOrder[k])]
         ELSE PillowScan(exif, k + 1, Append(seen, PillowOrder[k]), pad)

get_date_from_pillow(f, pad) ==
    IF f.pillow.open \in {"raise", "noexif"} THEN [ret |-> None, probes |-> << >>]
    ELSE PillowScan(f.pillow.exif, 1, << >>, pad)

\* the last tier of get_date_string: the modification date, None on any error
get_date_from_mtime(f, pad) ==
    IF f.mtime.ok
    THEN Str(Strftime(f.mtime.v[1], f.mtime.v[2], f.mtime.v[3], pad))
    ELSE None

\* mutant: a tier's date does not end the chain
AfterTier_NoReturn(next, res) == next

\* "if d: return d": where get_date_string goes after a metadata tier
AfterTier(next, res) == IF Truthy(res) THEN "done" ELSE next

\* A metadata value as stored in the file, with the date its normalisation is
\* to give (None when it is to give none).
Field(v, want) == [v |-> v, want |-> want]

PiexifFields(valid, want) ==
    { Field(Missing, None), Field(Bytes(<< >>), None), Field(BadBytes, None),
      Field(Bytes(<<"0", "0", "0", "0", ":", "0", "0", ":", "0", "0", " ",
                    "0", "0", ":", "0", "0", ":", "0", "0">>), None),
      Field(Bytes(valid), Str(want)) }

PillowFields(valid, want) ==
    { Field(Missing, None), Field(Str(<< >>), None),
      Field(Bytes(valid), None),
      Field(Str(<<"2", "0", "2", "2", ":", "1", "3", ":", "4", "0">>), None),
      Field(Str(valid), Str(want)) }

NoFields(order) == [n \in {order[k] : k \in 1..Len(order)} |-> Field(Missing, None)]

PiexifStates ==
    { [load |-> "raise", fields |-> NoFields(PiexifOrder)] } \cup
    [load : {"ok"},
     fields : { [n \in {"DateTimeOriginal", "DateTime"} |->
                   IF n = "DateTimeOriginal" THEN a ELSE b] :
                a \in PiexifFields(<<"2", "0", "2", "1", ":", "0", "1", ":", "0", "2", " ", "1", "0", ":", "3", "0", ":", "0", "0">>, <<"2", "0", "2", "1", "-", "0", "1", "-", "0", "2">>),
                b \in PiexifFields(<<"2", "0", "2", "1", ":", "0", "3", ":", "0", "4", " ", "1", "0", ":", "3", "0", ":", "0", "0">>, <<"2", "0", "2", "1", "-", "0", "3", "-", "0", "4">>) }]

PillowStates ==
    { [open |-> o, fields |-> NoFields(PillowOrder)] : o \in {"raise", "noexif"} } \cup
    [open : {"ok"},
     fields : { [n \in {"DateTimeOriginal", "DateTime", "DateTimeDigitized"} |->
                   IF n = "DateTimeOriginal" THEN a
                   ELSE IF n = "DateTime" THEN b ELSE c] :
                a \in PillowFields(<<"2", "0", "2", "2", ":", "0", "5", ":", "0", "6", " ", "1", "0", ":", "3", "0", ":", "0", "0">>, <<"2", "0", "2", "2", "-", "0", "5", "-", "0", "6">>),
                b \in PillowFields(<<"2", "0", "2", "2", ":", "0", "7", ":", "0", "8", " ", "1", "0", ":", "3", "0", ":", "0", "0">>, <<"2", "0", "2", "2", "-", "0", "7", "-", "0", "8">>),
                c \in PillowFields(<<"2", "0", "2", "2", ":", "0", "9", ":", "1", "0", " ", "1", "0", ":", "3", "0", ":", "0", "0">>, <<"2", "0", "2", "2", "-", "0", "9", "-", "1", "0">>) }]

\* the file as each backend sees it: the stored values, without the oracle
FileOf(ps, ls, mt) ==
    [piexif |-> [load |-> ps.load,
                 exif |-> [n \in DOMAIN ps.fields |-> ps.fields[n].v]],
     pillow |-> [open |-> ls.open,
                 exif |-> [n \in DOMAIN ls.fields |-> ls.fields[n].v]],
     mtime  |-> mt]

InitChain ==
    /\ gen \in [piexif : PiexifStates, pillow : PillowStates,
                mtime : {Fails, Gives(<<2023, 11, 12>>)}]
    /\ file = FileOf(gen.piexif, gen.pillow, gen.mtime)
    /\ HAVE_PIEXIF \in BOOLEAN
    /\ padsYear \in BOOLEAN
    /\ raw = "idle" /\ fmt_ret = "idle"
    /\ d_pc = "piexif"
    /\ d = Pending
    /\ d_ret = Pending
    /\ probes = << >>
    /\ IdlePos /\ IdleFont /\ IdleMeas /\ IdleColor /\ IdleBatch

\* "if HAVE_PIEXIF: d = get_date_from_piexif(path); if d: return d"
TierPiexif ==
    /\ d_pc = "piexif"
    /\ IF HAVE_PIEXIF
       THEN LET r == get_date_from_piexif(file, HAVE_PIEXIF, padsYear) IN
            /\ d' = r.ret
            /\ probes' = probes \o <<"tier:piexif">> \o r.probes
            /\ d_pc' = AfterTier("pillow", r.ret)
            /\ d_ret' = IF AfterTier("pillow", r.ret) = "done" THEN r.ret ELSE d_ret
       ELSE /\ d_pc' = "pillow"
            /\ UNCHANGED <<d, probes, d_ret>>
    /\ UNCHANGED <<gen, raw, padsYear, fmt_ret, file, HAVE_PIEXIF,
                   vPos, vFont, vMeas, vColor, vBatch>>

\* "d = get_date_from_pillow(path); if d: return d"
TierPillow ==
    /\ d_pc = "pillow"
    /\ LET r == get_date_from_pillow(file, padsYear) IN
       /\ d' = r.ret
       /\ probes' = probes \o <<"tier:pillow">> \o r.probes
       /\ d_pc' = AfterTier("mtime", r.ret)
       /\ d_ret' = IF AfterTier("mtime", r.ret) = "done" THEN r.ret ELSE d_ret
    /\ UNCHANGED <<gen, raw, padsYear, fmt_ret, file, HAVE_PIEXIF,
                   vPos, vFont, vMeas, vColor, vBatch>>

\* the try block around os.path.getmtime and strftime
TierMtime ==
    /\ d_pc = "mtime"
    /\ probes' = Append(probes, "tier:mtime")
    /\ d_ret' = get_date_from_mtime(file, padsYear)
    /\ d_pc' = "done"
    /\ UNCHANGED <<gen, raw, padsYear, fmt_ret, file, HAVE_PIEXIF, d,
                   vPos, vFont, vMeas, vColor, vBatch>>

NextChain == TierPiexif \/ TierPillow \/ TierMtime
SpecChain == InitChain /\ [][NextChain]_vars


\* the value is present and non-empty
NonEmpty(fld) == fld.v # Missing /\ fld.v.s # << >>

\* the date a backend is to give: that of the first present, non-empty field
BackendWant(fields, order) ==
    IF \E k \in 1..Len(order) : NonEmpty(fields[order[k]])
    THEN fields[order[CHOOSE k \in 1..Len(order) :
                        /\ NonEmpty(fields[order[k]])
                        /\ \A j \in 1..(k - 1) : ~NonEmpty(fields[order[j]])]].want
    ELSE None

\* how many fields a backend is to consult
BackendLooks(fields, order) ==
    IF \E k \in 1..Len(order) : NonEmpty(fields[order[k]])
    THEN CHOOSE k \in 1..Len(order) :
            /\ NonEmpty(fields[order[k]])
            /\ \A j \in 1..(k - 1) : ~NonEmpty(fields[order[j]])
    ELSE Len(order)

PrimaryWant ==
    IF gen.piexif.load = "raise" THEN None
    ELSE BackendWant(gen.piexif.fields, <<"DateTimeOriginal", "DateTime">>)

SecondaryWant ==
    IF gen.pillow.open # "ok" THEN None
    ELSE BackendWant(gen.pillow.fields,
                     <<"DateTimeOriginal", "DateTime", "DateTimeDigitized">>)

MtimeWant ==
    IF gen.mtime.ok
    THEN Str(<<"2", "0", "2", "3", "-", "1", "1", "-", "1", "2">>)
    ELSE None

TierMarks == {"tier:piexif", "tier:pillow", "tier:mtime"}
IsTierMark(x) == x \in TierMarks
TiersTried == SelectSeq(probes, IsTierMark)

\* C1: get_date_string returns the date of the first tier that yields one, in
\* the order piexif (when available), Pillow, modification time; a tier is
\* attempted only when every earlier one yielded nothing; the modification
\* date is returned as YYYY-MM-DD when no metadata date resolves and the file
\* is accessible; None is returned only when all three tiers yield nothing.
C1_FirstTierWins ==
    /\ d_ret.tag \in {"pending", "str", "None"}
    /\ d_pc = "done" =>
          LET primary == HAVE_PIEXIF /\ PrimaryWant # None IN
          /\ d_ret = IF primary THEN PrimaryWant
                     ELSE IF SecondaryWant # None THEN SecondaryWant
                     ELSE MtimeWant
          /\ TiersTried =
                (IF HAVE_PIEXIF THEN <<"tier:piexif">> ELSE << >>)
                \o (IF primary THEN << >> ELSE <<"tier:pillow">>)
                \o (IF primary \/ SecondaryWant # None THEN << >> ELSE <<"tier:mtime">>)
          /\ d_ret = None =>
                /\ ~HAVE_PIEXIF \/ PrimaryWant = None
                /\ SecondaryWant = None
                /\ ~gen.mtime.ok

\* piexif gave a date, Pillow and the mtime would each have given another one,
\* and the piexif date was returned
C1_Witness ==
    /\ d_pc = "done"
    /\ HAVE_PIEXIF
    /\ PrimaryWant # None /\ SecondaryWant # None /\ gen.mtime.ok
    /\ PrimaryWant # SecondaryWant
    /\ d_ret = PrimaryWant
    /\ probes = <<"tier:piexif", "DateTimeOriginal", "DateTime">>

\* the fields a tier consulted: what follows its mark, up to the next mark
ProbesOf(mark) ==
    LET first == IndexOf(probes, mark)
        rest  == SubSeq(probes, first + 1, Len(probes))
        stop  == IF \E k \in 1..Len(rest) : IsTierMark(rest[k])
                 THEN (CHOOSE k \in 1..Len(rest) :
                          IsTierMark(rest[k]) /\ \A j \in 1..(k - 1) : ~IsTierMark(rest[j]))
                 ELSE Len(rest) + 1
    IN  SubSeq(rest, 1, stop - 1)

LastTier == IF TiersTried = << >> THEN "none" ELSE TiersTried[Len(TiersTried)]

\* a backend consulted its fields in the given order, a field only when all
\* before it were missing or empty, and as many as it had to
ProbedInOrder(mark, fields, order, ok) ==
    IndexOf(probes, mark) # 0 =>
        LET seg == ProbesOf(mark) IN
        /\ Len(seg) = IF ok THEN BackendLooks(fields, order) ELSE 0
        /\ \A k \in 1..Len(seg) :
              /\ seg[k] = order[k]
              /\ \A j \in 1..(k - 1) : ~NonEmpty(fields[order[j]])

\* C10: each backend probes its fields in a strict order (piexif:
\* DateTimeOriginal, DateTime; Pillow: DateTimeOriginal, DateTime,
\* DateTimeDigitized), consults a field only when every earlier one is missing
\* or empty, returns the normalisation of the first present non-empty one, and
\* turns any internal error into None.
C10_StrictFieldOrder ==
    /\ ProbedInOrder("tier:piexif", gen.piexif.fields,
                     <<"DateTimeOriginal", "DateTime">>, gen.piexif.load = "ok")
    /\ ProbedInOrder("tier:pillow", gen.pillow.fields,
                     <<"DateTimeOriginal", "DateTime", "DateTimeDigitized">>,
                     gen.pillow.open = "ok")
    /\ LastTier = "tier:piexif" => d = PrimaryWant
    /\ LastTier = "tier:pillow" => d = SecondaryWant

\* Pillow found DateTimeOriginal missing and DateTime empty, and returned the
\* date of DateTimeDigitized
C10_Witness ==
    /\ LastTier = "tier:pillow"
    /\ gen.pillow.open = "ok"
    /\ gen.pillow.fields["DateTimeOriginal"].v = Missing
    /\ gen.pillow.fields["DateTime"].v = Str(<< >>)
    /\ ProbesOf("tier:pillow") = <<"DateTimeOriginal", "DateTime", "DateTimeDigitized">>
    /\ d = Str(<<"2", "0", "2", "2", "-", "0", "9", "-", "1", "0">>)

-----------------------------------------------------------------------------
(* process_image and the batch loop of main *)

\* the outline is drawn in black
outline_color == <<0, 0, 0>>

\* mutant: the outline is drawn at the four axis offsets
outline_offsets_Axis == << <<-1, 0>>, <<0, 1>>, <<1, 0>>, <<0, -1>> >>

\* the outline: four draws at these offsets from (x, y)
outline_offsets == << <<-1, -1>>, <<-1, 1>>, <<1, -1>>, <<1, 1>> >>

\* mutant: an exception inside process_image is not caught
OnException_Propagate == "propagate"

\* "except Exception as e: print(...); return False"
OnException == "return False"

\* at most MaxImages images in a batch
MaxImages == 3

DateText == <<"2", "0", "2", "2", "-", "0", "7", "-", "0", "4">>

\* an image file: what get_date_string resolves for it, and its pixel size
ImageFiles == [date : {None, Str(DateText)}, size : {<<100, 50>>, <<60, 20>>}]

SeqsUpTo(S, n) == UNION { [1..k -> S] : k \in 1..n }

InitBatch ==
    /\ image_list \in SeqsUpTo(ImageFiles, MaxImages)
    /\ color \in { Str(<<"B", "l", "u", "e">>),
                   Str(<<"#", "G", "G", "G", "G", "G", "G">>) }
    /\ pos \in {"center", "bottom-right"}
    /\ i = 0 /\ success = 0
    /\ p_pc = "idle"
    /\ im = None /\ xy = << >> /\ draws = << >>
    /\ calls = << >> /\ rets = << >> /\ saved = << >>
    /\ IdleDate /\ IdleChain /\ IdlePos /\ IdleFont /\ IdleMeas /\ IdleColor

\* process_image returns b to main, whose loop body adds it to the count
ReturnTo(b, why) ==
    /\ rets' = Append(rets, [ok |-> b, why |-> why])
    /\ success' = IF b THEN success + 1 ELSE success
    /\ p_pc' = "idle"
    /\ im' = None

\* an exception raised inside the try block of process_image
Raise(why) ==
    IF OnException = "return False"
    THEN ReturnTo(FALSE, why)
    ELSE /\ p_pc' = "aborted"
         /\ im' = None
         /\ UNCHANGED <<rets, success>>

\* main: the next iteration of the for loop calls process_image
LoopCall ==
    /\ p_pc = "idle"
    /\ i < Len(image_list)
    /\ i' = i + 1
    /\ calls' = Append(calls, i + 1)
    /\ p_pc' = "date"
    /\ UNCHANGED <<image_list, color, pos, success, im, xy, draws, rets, saved>>
    /\ UNCHANGED <<vDate, vChain, vPos, vFont, vMeas, vColor>>

\* date_text = get_date_string(path); an unresolved date skips the image
ResolveDate ==
    /\ p_pc = "date"
    /\ IF Truthy(image_list[i].date)
       THEN /\ p_pc' = "open"
            /\ UNCHANGED <<im, rets, success>>
       ELSE ReturnTo(FALSE, "no date")
    /\ UNCHANGED <<image_list, color, pos, i, xy, draws, calls, saved>>
    /\ UNCHANGED <<vDate, vChain, vPos, vFont, vMeas, vColor>>

\* open, convert to RGBA, pick the font, measure the text, compute (x, y).
\* Opening and decoding may raise; the font and the measurement may not.
OpenAndLayout ==
    /\ p_pc = "open"
    /\ \E raises \in BOOLEAN, text_size \in { <<80, 16>>, <<61, 11>> } :
          IF raises
          THEN Raise("before draw") /\ UNCHANGED <<xy, draws>>
          ELSE /\ im' = [size |-> image_list[i].size]
               /\ xy' = calc_pos(pos, image_list[i].size, text_size)
               /\ draws' = << >>
               /\ p_pc' = "outline"
               /\ UNCHANGED <<rets, success>>
    /\ UNCHANGED <<image_list, color, pos, i, calls, saved>>
    /\ UNCHANGED <<vDate, vChain, vPos, vFont, vMeas, vColor>>

\* one iteration of the outline loop: draw.text at the next offset, in black
DrawOutline ==
    /\ p_pc = "outline"
    /\ LET off == outline_offsets[Len(draws) + 1] IN
       \E raises \in BOOLEAN :
          IF raises
          THEN Raise("during draw") /\ UNCHANGED draws
          ELSE /\ draws' = Append(draws, [at   |-> <<xy[1] + off[1], xy[2] + off[2]>>,
                                          fill |-> outline_color])
               /\ p_pc' = IF Len(draws) + 1 = Len(outline_offsets)
                          THEN "fill" ELSE "outline"
               /\ UNCHANGED <<im, rets, success>>
    /\ UNCHANGED <<image_list, color, pos, i, xy, calls, saved>>
    /\ UNCHANGED <<vDate, vChain, vPos, vFont, vMeas, vColor>>

\* draw.text((x, y), ..., fill=parse_color(color_str)): parse_color is
\* evaluated first and may raise, and so may the draw
DrawFill ==
    /\ p_pc = "fill"
    /\ LET c == parse_color(color) IN
       \E raises \in BOOLEAN :
          IF raises \/ c = Raised
          THEN Raise("during draw") /\ UNCHANGED draws
          ELSE /\ draws' = Append(draws, [at |-> xy, fill |-> c.s])
               /\ p_pc' = "save"
               /\ UNCHANGED <<im, rets, success>>
    /\ UNCHANGED <<image_list, color, pos, i, xy, calls, saved>>
    /\ UNCHANGED <<vDate, vChain, vPos, vFont, vMeas, vColor>>

\* os.makedirs and im.save; a save that raises may leave a truncated file of
\* the finished rendering behind or nothing at all
Save ==
    /\ p_pc = "save"
    /\ \E outcome \in {"saved", "raised, no file", "raised, truncated file"} :
          /\ saved' = IF outcome = "raised, no file" THEN saved
                      ELSE Append(saved, [image |-> i, xy |-> xy, draws |-> draws,
                                          whole |-> outcome = "saved"])
          /\ IF outcome = "saved" THEN ReturnTo(TRUE, "saved")
             ELSE Raise("during save")
    /\ UNCHANGED <<image_list, color, pos, i, xy, draws, calls>>
    /\ UNCHANGED <<vDate, vChain, vPos, vFont, vMeas, vColor>>

NextBatch == LoopCall \/ ResolveDate \/ OpenAndLayout \/ DrawOutline \/ DrawFill \/ Save
SpecBatch == InitBatch /\ [][NextBatch]_vars


\* C8: every image of the list is passed to process_image exactly once, in
\* list order; a skipped or failing image makes process_image return False
\* without raising and does not stop the loop; the success count is the number
\* of calls that returned True.
C8_BatchCountsEveryImage ==
    /\ p_pc # "aborted"
    /\ i <= Len(image_list)
    /\ calls = [k \in 1..i |-> k]
    /\ Len(rets) = IF p_pc = "idle" THEN i ELSE i - 1
    /\ \A k \in 1..Len(rets) :
          rets[k].why \in {"no date", "before draw", "during draw", "during save"}
             => ~rets[k].ok
    /\ success = Cardinality({k \in 1..Len(rets) : rets[k].ok})
    /\ (p_pc = "idle" /\ i < Len(image_list)) => ENABLED LoopCall
    /\ (p_pc = "idle" /\ i = Len(image_list)) =>
          /\ calls = [k \in 1..Len(image_list) |-> k]
          /\ Len(rets) = Len(image_list)

\* a batch of three has ended: the first image was skipped, the second failed
\* while drawing, the third was saved, and the count is 1
C8_Witness ==
    /\ p_pc = "idle" /\ i = 3 /\ Len(image_list) = 3
    /\ Len(rets) = 3
    /\ rets[1].why = "no date" /\ rets[2].why = "during draw" /\ rets[3].ok
    /\ success = 1

\* the five draws of a finished rendering at (x, y)
FullRender(at, fill) ==
    << [at |-> <<at[1] - 1, at[2] - 1>>, fill |-> <<0, 0, 0>>],
       [at |-> <<at[1] - 1, at[2] + 1>>, fill |-> <<0, 0, 0>>],
       [at |-> <<at[1] + 1, at[2] - 1>>, fill |-> <<0, 0, 0>>],
       [at |-> <<at[1] + 1, at[2] + 1>>, fill |-> <<0, 0, 0>>],
       [at |-> at, fill |-> fill] >>

\* C9: an output file is written only after the four black outline draws at
\* (-1,-1), (-1,1), (1,-1), (1,1) and the fill draw at (x, y) in the resolved
\* colour; an image whose date is unresolved or for which a step before the
\* save raises gets no output file and False.
C9_OnlyFinishedRenderingsSaved ==
    /\ \A n \in 1..Len(saved) :
          /\ color = Str(<<"B", "l", "u", "e">>)
          /\ saved[n].draws = FullRender(saved[n].xy, <<0, 0, 255>>)
          /\ saved[n].image <= Len(rets) \/ (saved[n].image = i /\ p_pc = "save")
    /\ \A k \in 1..Len(rets) :
          /\ rets[k].why \in {"no date", "before draw", "during draw"} =>
                /\ ~rets[k].ok
                /\ \A n \in 1..Len(saved) : saved[n].image # k
          /\ rets[k].ok =>
                Cardinality({n \in 1..Len(saved) :
                                saved[n].image = k /\ saved[n].whole}) = 1
    /\ p_pc \in {"date", "open", "outline", "fill", "save"} =>
          \A n \in 1..Len(saved) : saved[n].image # i

\* one image failed after two outline draws and has no output file; the next
\* was saved
C9_Witness ==
    /\ Len(rets) = 2
    /\ rets[1].why = "during draw" /\ rets[2].ok
    /\ Len(saved) = 1 /\ saved[1].image = 2 /\ saved[1].whole
    /\ Len(saved[1].draws) = 5

====
